---- MODULE Spec2Model ----
(***************************************************************************)
(* A model of main.py of the meal planner: the preference file            *)
(* memory_bank.json and the tools that read and write it, the grocery      *)
(* sheet filter, and the three-agent sequential run.                       *)
(*                                                                         *)
(* Time is a clock counted in ticks, TicksPerDay ticks to a calendar day;  *)
(* tick 0 of a day is midnight.  A "%Y-%m-%d" string is modelled by the    *)
(* number of the day it names: strftime drops the time of day, strptime    *)
(* gives midnight of the day.                                              *)
(***************************************************************************)
EXTENDS Integers, Sequences, FiniteSets, TLC

VARIABLES
  now,        \* the wall clock, datetime.now(), in ticks
  file,       \* memory_bank.json: whether it exists and the JSON document in it
  last,       \* the tool invocation that has just returned: its arguments, what it
              \* read and what it returned; NoCall once the clock has moved on
  values,     \* the rows the Sheets API returns for SHEET_RANGE
  veggies,    \* fetch_recent_grocery_data: the frame of rows that survived both filters
  inventory,  \* fetch_recent_grocery_data: the string returned
  stage,      \* run_meal_planner: index into sub_agents of the agent running
  status,     \* run_meal_planner: "running", "done" or "failed"
  attempt,    \* the HTTP attempt of the model request in flight (retry_config)
  log         \* the tools invoked in this run, in order, with the stage that invoked them

vars == <<now, file, last, values, veggies, inventory, stage, status, attempt, log>>
storeVars == <<now, file, last>>
fetchVars == <<values, veggies, inventory>>
runVars == <<stage, status, attempt, log>>

----------------------------------------------------------------------------
(* Bounds of the model *)

TicksPerDay == 2
MaxDay == 15
MaxHist == 2
MaxCalls == 3
MaxRows == 2

MaxNow == MaxDay * TicksPerDay

(* Program constants *)

RETENTION_DAYS == 14
FETCH_DAYS == 14
attempts == 5

(* Python's None; every other value of this kind is a str *)
None == "<None>"

Truthy(s) == s # None /\ s # ""

FavoriteArgs == {None, "Daal Chawal", "Biryani"}
DislikeArgs == {"", "Karela"}
MealArgs == {"Biryani"}

----------------------------------------------------------------------------
(* datetime *)

strftime(t) == t \div TicksPerDay

strptime(d) == d * TicksPerDay

timedelta(days) == days * TicksPerDay

----------------------------------------------------------------------------
(* The memory bank *)

DefaultMemory ==
  [dislikes |-> <<>>,
   favorites |-> <<"Daal Chawal", "Chicken Handi White">>,
   last_14_days_suggestions |-> <<>>]

NoFile == [exists |-> FALSE, data |-> DefaultMemory]

IsIn(x, list) == \E i \in 1..Len(list) : list[i] = x

\* open("memory_bank.json", "r"): the document, or FileNotFoundError
open_r(f) ==
  IF f.exists THEN [error |-> "", data |-> f.data]
  ELSE [error |-> "FileNotFoundError", data |-> f.data]

\* the except clause left out: FileNotFoundError reaches the caller
read_memory_bank_uncaught(f) ==
  [error |-> open_r(f).error, value |-> open_r(f).data]

read_memory_bank(f) ==
  LET o == open_r(f)
  IN IF o.error = "FileNotFoundError"
     THEN [error |-> "", value |-> DefaultMemory]
     ELSE [error |-> o.error, value |-> o.data]

write_memory_bank(data) == [exists |-> TRUE, data |-> data]

\* the membership checks left out
update_preferences_always(memory, favorite, dislike) ==
  LET m1 == IF Truthy(favorite)
            THEN [memory EXCEPT !.favorites = Append(@, favorite)]
            ELSE memory
  IN IF Truthy(dislike)
     THEN [m1 EXCEPT !.dislikes = Append(@, dislike)]
     ELSE m1

\* lines 117-118 and 121-122: the record after the two guarded appends
update_preferences(memory, favorite, dislike) ==
  LET m1 == IF Truthy(favorite) /\ ~IsIn(favorite, memory.favorites)
            THEN [memory EXCEPT !.favorites = Append(@, favorite)]
            ELSE memory
  IN IF Truthy(dislike) /\ ~IsIn(dislike, m1.dislikes)
     THEN [m1 EXCEPT !.dislikes = Append(@, dislike)]
     ELSE m1

\* lines 152-156: the entries kept by the pruning comprehension
prune(entries, t) ==
  LET cutoff_date == t - timedelta(RETENTION_DAYS)
  IN SelectSeq(entries, LAMBDA entry : strptime(entry.date) >= cutoff_date)

\* the record built afresh instead of read from the file
save_selected_meal_fresh(memory, meal_name, t1, t2) ==
  [DefaultMemory EXCEPT !.last_14_days_suggestions =
     prune(Append(memory.last_14_days_suggestions,
                  [meal |-> meal_name, date |-> strftime(t1)]), t2)]

\* lines 139-156: t1 and t2 are the two readings of datetime.now()
save_selected_meal(memory, meal_name, t1, t2) ==
  LET suggestion_entry == [meal |-> meal_name, date |-> strftime(t1)]
      appended == Append(memory.last_14_days_suggestions, suggestion_entry)
  IN [memory EXCEPT !.last_14_days_suggestions = prune(appended, t2)]

NoCall ==
  [tool |-> "none", favorite |-> None, dislike |-> None, meal_name |-> None,
   pre |-> NoFile, error |-> "", ret |-> DefaultMemory, t1 |-> 0, t2 |-> 0, stage |-> 0]

Invocation(tool, st) == [NoCall EXCEPT !.tool = tool, !.pre = file, !.stage = st,
                                         !.t1 = now, !.t2 = now]

----------------------------------------------------------------------------
(* The tools, as steps on the file and the clock.  st is the stage of the *)
(* agent that invokes the tool, 0 when the function is called directly.   *)

Do_read_memory_bank(st) ==
  /\ last' = [Invocation("read_memory_bank", st) EXCEPT
                !.error = read_memory_bank(file).error,
                !.ret = read_memory_bank(file).value]
  /\ UNCHANGED <<now, file>>

Do_update_preferences(st, favorite, dislike) ==
  LET memory == update_preferences(read_memory_bank(file).value, favorite, dislike)
  IN /\ file' = write_memory_bank(memory)
     /\ last' = [Invocation("update_preferences", st) EXCEPT
                   !.favorite = favorite, !.dislike = dislike, !.ret = memory]
     /\ UNCHANGED now

\* the two readings of datetime.now() are microseconds apart and fall on
\* the same instant of the clock
Do_save_selected_meal(st, meal_name) ==
  /\ LET memory == save_selected_meal(read_memory_bank(file).value, meal_name, now, now)
     IN /\ Len(memory.last_14_days_suggestions) <= MaxHist
        /\ file' = write_memory_bank(memory)
        /\ last' = [Invocation("save_selected_meal", st) EXCEPT
                      !.meal_name = meal_name, !.ret = memory]
  /\ UNCHANGED now

\* time passes: a tick, a day or a whole retention window
Advance ==
  /\ \E d \in {1, timedelta(1), timedelta(RETENTION_DAYS)} :
       /\ now + d <= MaxNow
       /\ now' = now + d
  /\ last' = NoCall
  /\ UNCHANGED file

----------------------------------------------------------------------------
(* StoreSpec: the preference store under any sequence of its operations *)

InitStore ==
  /\ now \in 0..(TicksPerDay - 1)
  /\ file = NoFile
  /\ last = NoCall
  /\ values = <<>>
  /\ veggies = <<>>
  /\ inventory = ""
  /\ stage = 0
  /\ status = "idle"
  /\ attempt = 0
  /\ log = <<>>

Store_read_memory_bank == Do_read_memory_bank(0) /\ UNCHANGED <<fetchVars, runVars>>

Store_update_preferences ==
  /\ \E favorite \in FavoriteArgs, dislike \in DislikeArgs :
       Do_update_preferences(0, favorite, dislike)
  /\ UNCHANGED <<fetchVars, runVars>>

Store_save_selected_meal ==
  /\ \E meal_name \in MealArgs : Do_save_selected_meal(0, meal_name)
  /\ UNCHANGED <<fetchVars, runVars>>

Store_Advance == Advance /\ UNCHANGED <<fetchVars, runVars>>

NextStore ==
  \/ Store_read_memory_bank
  \/ Store_update_preferences
  \/ Store_save_selected_meal
  \/ Store_Advance

StoreSpec == InitStore /\ [][NextStore]_vars

----------------------------------------------------------------------------
(* The grocery sheet.  A row carries the columns the function reads; a     *)
(* DATE cell is text that pd.to_datetime either parses to a timestamp or   *)
(* coerces to NaT; CATEGORY is text, a sequence of characters.             *)

Header == [DATE |-> [ok |-> FALSE, day |-> 0, tod |-> 0], ITEM |-> "ITEM",
           CATEGORY |-> <<"C","A","T","E","G","O","R","Y">>, QTY |-> "QTY", UNIT |-> "UNIT"]

DateCells ==
  {[ok |-> FALSE, day |-> 0, tod |-> 0]} \cup
  {[ok |-> TRUE, day |-> d, tod |-> 0] :
     d \in {MaxDay - FETCH_DAYS - 1, MaxDay - FETCH_DAYS, MaxDay, MaxDay + 1}} \cup
  {[ok |-> TRUE, day |-> MaxDay - FETCH_DAYS, tod |-> TicksPerDay - 1]}

Categories ==
  { <<"V","e","g","e","t","a","b","l","e">>,
    <<"V","E","G","E","T","A","B","L","E">>,
    <<"F","r","e","s","h"," ","v","e","g","g","i","e","s">>,
    <<"B","e","v","e","r","a","g","e">>,
    <<"F","r","u","i","t">> }

Rows == {[DATE |-> d, ITEM |-> "Palak", CATEGORY |-> c, QTY |-> "1", UNIT |-> "kg"] :
           d \in DateCells, c \in Categories}

\* the sheets with a header and up to n rows under it
RECURSIVE SheetsUpTo(_)
SheetsUpTo(n) ==
  IF n = 0 THEN {<<Header>>}
  ELSE LET shorter == SheetsUpTo(n - 1)
       IN shorter \cup
          {Append(sheet, row) : sheet \in {sh \in shorter : Len(sh) = n}, row \in Rows}

Sheets == {<<>>} \cup SheetsUpTo(MaxRows)

Uppers == <<"A","B","C","D","E","F","G","H","I","J","K","L","M",
            "N","O","P","Q","R","S","T","U","V","W","X","Y","Z">>
Lowers == <<"a","b","c","d","e","f","g","h","i","j","k","l","m",
            "n","o","p","q","r","s","t","u","v","w","x","y","z">>

lower(c) ==
  IF \E i \in 1..26 : Uppers[i] = c
  THEN Lowers[CHOOSE i \in 1..26 : Uppers[i] = c]
  ELSE c

\* Series.str.contains(pat, case=case) for a pattern of plain letters
str_contains(s, pat, case) ==
  \E i \in 1..(Len(s) - Len(pat) + 1) :
    \A k \in 1..Len(pat) :
      IF case THEN s[i + k - 1] = pat[k]
      ELSE lower(s[i + k - 1]) = lower(pat[k])

Veg == <<"V","e","g">>

\* pd.to_datetime(..., errors='coerce')
to_datetime(cell) ==
  IF cell.ok THEN [NaT |-> FALSE, t |-> strptime(cell.day) + cell.tod]
  ELSE [NaT |-> TRUE, t |-> 0]

\* pd.DataFrame(values[1:], columns=expected_cols) with DATE parsed; the
\* frame keeps each row's index label through the filters
DataFrame(rows) ==
  [i \in 1..Len(rows) |->
     [index |-> i - 1, DATE |-> to_datetime(rows[i].DATE), ITEM |-> rows[i].ITEM,
      CATEGORY |-> rows[i].CATEGORY, QTY |-> rows[i].QTY, UNIT |-> rows[i].UNIT]]

\* line 71: df['DATE'] >= two_weeks_ago; a comparison with NaT is False
date_mask(row, t) ==
  LET two_weeks_ago == t - timedelta(FETCH_DAYS)
  IN ~row.DATE.NaT /\ row.DATE.t >= two_weeks_ago

\* case=False left out
category_mask_case(row) == str_contains(row.CATEGORY, Veg, TRUE)

\* line 75
category_mask(row) == str_contains(row.CATEGORY, Veg, FALSE)

date_text(d) == "day-" \o ToString(d)

\* line 80
line(row) ==
  row.ITEM \o " (" \o row.QTY \o " " \o row.UNIT \o ") bought on "
    \o date_text(strftime(row.DATE.t))

RECURSIVE join(_)
join(lines) ==
  IF lines = <<>> THEN ""
  ELSE IF Len(lines) = 1 THEN lines[1]
  ELSE lines[1] \o "\n" \o join(Tail(lines))

\* the empty-list check left out
inventory_text_joined(frame) == join([i \in 1..Len(frame) |-> line(frame[i])])

\* lines 78-85
inventory_text(frame) ==
  LET inventory_list == [i \in 1..Len(frame) |-> line(frame[i])]
  IN IF inventory_list = <<>>
     THEN "No vegetables found bought in the last 14 days. Check if 'CATEGORY' column matches 'Veg'."
     ELSE join(inventory_list)

fetch_recent_grocery_data(vals, t) ==
  IF vals = <<>>
  THEN [veggies |-> <<>>, ret |-> "No data found in the spreadsheet."]
  ELSE LET df == DataFrame(Tail(vals))
           recent_items == SelectSeq(df, LAMBDA row : date_mask(row, t))
           kept == SelectSeq(recent_items, category_mask)
       IN [veggies |-> kept, ret |-> inventory_text(kept)]

Do_fetch_recent_grocery_data(st) ==
  /\ veggies' = fetch_recent_grocery_data(values, now).veggies
  /\ inventory' = fetch_recent_grocery_data(values, now).ret
  /\ last' = Invocation("fetch_recent_grocery_data", st)
  /\ UNCHANGED <<now, file, values>>

----------------------------------------------------------------------------
(* FetchSpec: fetch_recent_grocery_data on every sheet and reference time *)

InitFetch ==
  /\ now \in timedelta(MaxDay)..(timedelta(MaxDay + 1) - 1)
  /\ file = NoFile
  /\ last = NoCall
  /\ values \in Sheets
  /\ veggies = <<>>
  /\ inventory = ""
  /\ stage = 0
  /\ status = "idle"
  /\ attempt = 0
  /\ log = <<>>

Fetch_fetch_recent_grocery_data ==
  Do_fetch_recent_grocery_data(0) /\ UNCHANGED runVars

NextFetch == Fetch_fetch_recent_grocery_data

FetchSpec == InitFetch /\ [][NextFetch]_vars

----------------------------------------------------------------------------
(* The run: SequentialAgent runs its sub-agents in list order, each to its *)
(* final response; within an agent the model either asks for one of the    *)
(* agent's tools or gives the final response.  An exception, from a tool   *)
(* or from the model request once its retries are used up, ends the run.   *)

\* update_preferences handed to the first agent as well
data_agent_writing ==
  [name |-> "KitchenManager",
   tools |-> {"fetch_recent_grocery_data", "read_memory_bank", "update_preferences"}]

data_agent ==
  [name |-> "KitchenManager",
   tools |-> {"fetch_recent_grocery_data", "read_memory_bank"}]

planner_agent ==
  [name |-> "CreativeChef", tools |-> {"update_preferences"}]

selection_agent ==
  [name |-> "DecisionMaker",
   tools |-> {"save_selected_meal", "send_discord_notification"}]

\* the last two agents listed the other way round
sub_agents_swapped == <<data_agent, selection_agent, planner_agent>>

sub_agents == <<data_agent, planner_agent, selection_agent>>

Running == status = "running"

CanInvoke(tool) ==
  /\ Running
  /\ tool \in sub_agents[stage].tools
  /\ Len(log) < MaxCalls

\* the tool's response goes back to the model in a new request
Invoked(tool) ==
  /\ log' = Append(log, [tool |-> tool, stage |-> stage])
  /\ attempt' = 1
  /\ UNCHANGED <<stage, status>>

Do_send_discord_notification(st) ==
  /\ last' = Invocation("send_discord_notification", st)
  /\ UNCHANGED <<now, file>>

\* a file left by a run fourteen days before
OldFile ==
  write_memory_bank([DefaultMemory EXCEPT
    !.last_14_days_suggestions = <<[meal |-> "Biryani", date |-> 0]>>])

RunSheets ==
  { <<>>,
    <<Header,
      [DATE |-> [ok |-> TRUE, day |-> MaxDay - 1, tod |-> 0], ITEM |-> "Palak",
       CATEGORY |-> <<"V","e","g","e","t","a","b","l","e">>, QTY |-> "1", UNIT |-> "kg"]>> }

Init ==
  /\ now \in timedelta(RETENTION_DAYS)..(timedelta(RETENTION_DAYS) + 1)
  /\ file \in {NoFile, OldFile}
  /\ last = NoCall
  /\ values \in RunSheets
  /\ veggies = <<>>
  /\ inventory = ""
  /\ stage = 1
  /\ status = "running"
  /\ attempt = 1
  /\ log = <<>>

Run_fetch_recent_grocery_data ==
  /\ CanInvoke("fetch_recent_grocery_data")
  /\ Do_fetch_recent_grocery_data(stage)
  /\ Invoked("fetch_recent_grocery_data")

Run_read_memory_bank ==
  /\ CanInvoke("read_memory_bank")
  /\ Do_read_memory_bank(stage)
  /\ Invoked("read_memory_bank")
  /\ UNCHANGED fetchVars

Run_update_preferences ==
  /\ CanInvoke("update_preferences")
  /\ \E favorite \in FavoriteArgs, dislike \in DislikeArgs :
       Do_update_preferences(stage, favorite, dislike)
  /\ Invoked("update_preferences")
  /\ UNCHANGED fetchVars

Run_save_selected_meal ==
  /\ CanInvoke("save_selected_meal")
  /\ \E meal_name \in MealArgs : Do_save_selected_meal(stage, meal_name)
  /\ Invoked("save_selected_meal")
  /\ UNCHANGED fetchVars

Run_send_discord_notification ==
  /\ CanInvoke("send_discord_notification")
  /\ Do_send_discord_notification(stage)
  /\ Invoked("send_discord_notification")
  /\ UNCHANGED fetchVars

\* the Sheets request or the webhook request raises: the tool was invoked
\* and the exception leaves the run
ToolRaises ==
  /\ \E tool \in {"fetch_recent_grocery_data", "send_discord_notification"} :
       /\ CanInvoke(tool)
       /\ log' = Append(log, [tool |-> tool, stage |-> stage])
  /\ status' = "failed"
  /\ last' = NoCall
  /\ UNCHANGED <<now, file, fetchVars, stage, attempt>>

\* retry_config: a 429, 500, 503 or 504 is retried while attempts remain
ModelRetry ==
  /\ Running
  /\ attempt < attempts
  /\ attempt' = attempt + 1
  /\ last' = NoCall
  /\ UNCHANGED <<now, file, fetchVars, stage, status, log>>

\* another error, or one of those with no attempt left
ModelFails ==
  /\ Running
  /\ status' = "failed"
  /\ last' = NoCall
  /\ UNCHANGED <<now, file, fetchVars, stage, attempt, log>>

\* the agent's final response: the next sub-agent starts, or the run ends
FinishStage ==
  /\ Running
  /\ IF stage < Len(sub_agents)
     THEN stage' = stage + 1 /\ UNCHANGED status
     ELSE status' = "done" /\ UNCHANGED stage
  /\ attempt' = 1
  /\ last' = NoCall
  /\ UNCHANGED <<now, file, fetchVars, log>>

Run_Advance == Advance /\ UNCHANGED <<fetchVars, runVars>>

Next ==
  \/ Run_fetch_recent_grocery_data
  \/ Run_read_memory_bank
  \/ Run_update_preferences
  \/ Run_save_selected_meal
  \/ Run_send_discord_notification
  \/ ToolRaises
  \/ ModelRetry
  \/ ModelFails
  \/ FinishStage
  \/ Run_Advance

Spec == Init /\ [][Next]_vars

----------------------------------------------------------------------------
(* Properties *)

\* the preference record a load of file f gives
Loaded(f) ==
  IF f.exists THEN f.data
  ELSE [dislikes |-> <<>>,
        favorites |-> <<"Daal Chawal", "Chicken Handi White">>,
        last_14_days_suggestions |-> <<>>]

IsName(x) == x # None /\ x # ""

Returned(tool) == last.tool = tool

\* C1: when save_selected_meal has completed, the history is the history
\* before the call with the new entry appended, less exactly the entries
\* dated more than 14 days before the current date, in the original order,
\* whatever the time of day of the call.
C1_PrunesExactlyOlderDates ==
  Returned("save_selected_meal") =>
    LET today == strftime(last.t2)
        entry == [meal |-> last.meal_name, date |-> strftime(last.t1)]
        before == Loaded(last.pre).last_14_days_suggestions \o <<entry>>
    IN Loaded(file).last_14_days_suggestions =
         SelectSeq(before, LAMBDA e : ~(today - e.date > 14))

\* C2: after every write of the preference file, by update_preferences or
\* by save_selected_meal, every entry of the persisted history is dated
\* within the 14 days up to the current date.
C2_HistoryWithinWindowAfterWrite ==
  (Returned("update_preferences") \/ Returned("save_selected_meal")) =>
    \A i \in 1..Len(Loaded(file).last_14_days_suggestions) :
      LET e == Loaded(file).last_14_days_suggestions[i]
      IN strftime(now) - e.date <= 14

\* the timestamp a DATE cell names, and whether it lies in [t - 14 days, t]
CellTime(cell) == cell.day * TicksPerDay + cell.tod

InTrailingWindow(cell, t) ==
  /\ cell.ok
  /\ CellTime(cell) >= t - 14 * TicksPerDay
  /\ CellTime(cell) <= t

\* whether the sheet row at position k (the header is position 1) has a line
Emitted(k) == \E i \in 1..Len(veggies) : veggies[i].index = k - 2

\* C3: fetch_recent_grocery_data emits a line only for rows dated within
\* [now - 14 days, now]; a row dated before the window or after now is left
\* out.
C3_OnlyRowsInTrailingWindow ==
  Returned("fetch_recent_grocery_data") =>
    \A k \in 2..Len(values) :
      Emitted(k) => InTrailingWindow(values[k].DATE, last.t2)

\* the eight spellings of "veg", and whether a text holds one of them
VegSpellings ==
  {<<a, b, c>> : a \in {"v", "V"}, b \in {"e", "E"}, c \in {"g", "G"}}

HasVeg(text) ==
  \E i \in 1..(Len(text) - 2) :
    <<text[i], text[i + 1], text[i + 2]>> \in VegSpellings

\* C4: a row whose category holds "veg" in no spelling of upper and lower
\* case has no line, and a row dated in the window whose category holds it
\* in some spelling has one.
C4_CategoryFilterIgnoresCase ==
  Returned("fetch_recent_grocery_data") =>
    \A k \in 2..Len(values) :
      /\ ~HasVeg(values[k].CATEGORY) => ~Emitted(k)
      /\ (HasVeg(values[k].CATEGORY) /\ InTrailingWindow(values[k].DATE, last.t2))
           => Emitted(k)

C4_Witness ==
  /\ Returned("fetch_recent_grocery_data")
  /\ \E k \in 2..Len(values) :
       /\ values[k].CATEGORY = <<"V","E","G","E","T","A","B","L","E">>
       /\ Emitted(k)
  /\ \E k \in 2..Len(values) :
       /\ values[k].CATEGORY = <<"B","e","v","e","r","a","g","e">>
       /\ InTrailingWindow(values[k].DATE, last.t2)
       /\ ~Emitted(k)

\* the writes of the preference file in this run
Writes ==
  Cardinality({i \in 1..Len(log) :
                 log[i].tool \in {"update_preferences", "save_selected_meal"}})

\* C5 as stated: within a run only the decision stage writes the preference
\* file, and the file is written exactly once, at the end of the run.
C5_WrittenOnceByDecisionStage ==
  /\ stage < 3 => Writes = 0
  /\ Writes <= 1
  /\ status = "done" => Writes = 1

C5_Inv ==
  \A i \in 1..Len(log) :
    /\ log[i].tool = "update_preferences" => log[i].stage = 2
    /\ log[i].tool = "save_selected_meal" => log[i].stage = 3
    /\ log[i].stage = 1 =>
         log[i].tool \in {"fetch_recent_grocery_data", "read_memory_bank"}

C5_Act ==
  file' # file =>
    /\ Len(log') = Len(log) + 1
    /\ \/ stage = 2 /\ log'[Len(log')].tool = "update_preferences"
       \/ stage = 3 /\ log'[Len(log')].tool = "save_selected_meal"

\* C5 as amended: within a run the file is written only by
\* update_preferences, invoked by the planning stage, and by
\* save_selected_meal, invoked by the decision stage; the inventory stage
\* never writes it, and the file changes in no other step.
C5_WrittenByPlanningAndDecision == []C5_Inv /\ [][C5_Act]_vars

C5_Witness ==
  /\ status = "done"
  /\ Writes = 2
  /\ \E i \in 1..Len(log) : log[i].tool = "update_preferences" /\ log[i].stage = 2
  /\ \E i \in 1..Len(log) : log[i].tool = "save_selected_meal" /\ log[i].stage = 3

\* the stage each tool belongs to: inventory, planning, decision
StageOfTool(tool) ==
  CASE tool \in {"fetch_recent_grocery_data", "read_memory_bank"} -> 1
    [] tool = "update_preferences" -> 2
    [] tool \in {"save_selected_meal", "send_discord_notification"} -> 3

C7_Inv ==
  /\ \A i \in 1..Len(log) :
       /\ log[i].stage = StageOfTool(log[i].tool)
       /\ log[i].stage <= stage
  /\ \A i \in 1..Len(log), j \in 1..Len(log) :
       i < j => log[i].stage <= log[j].stage

C7_Act ==
  /\ stage' \in {stage, stage + 1}
  /\ status # "running" => UNCHANGED <<stage, status, attempt, log, file>>

\* C7: the tools are invoked in the order of the stages inventory, planning,
\* decision, each by its own stage, a stage only follows the one before it,
\* and once the run has failed or ended no tool is invoked, nothing is
\* written and nothing is tried again.
C7_StagesInOrderAndAbort == []C7_Inv /\ [][C7_Act]_vars

C7_Witness ==
  /\ status = "failed"
  /\ stage = 2
  /\ Len(log) = 2
  /\ log[1].tool = "fetch_recent_grocery_data"
  /\ log[2].tool = "update_preferences"

\* C6: update_preferences with a name already in favorites leaves the
\* favorites as they were, with a name not yet there it appends the name
\* once at the end; likewise for dislike and the dislikes; when nothing is
\* appended the record is unchanged, and the same call again changes nothing.
C6_AppendOnceOrNoop ==
  Returned("update_preferences") =>
    LET old == Loaded(last.pre)
        new == Loaded(file)
        fav == last.favorite
        dis == last.dislike
        favNew == IsName(fav) /\ ~IsIn(fav, old.favorites)
        disNew == IsName(dis) /\ ~IsIn(dis, old.dislikes)
    IN /\ file.exists
       /\ new.favorites = IF favNew THEN old.favorites \o <<fav>> ELSE old.favorites
       /\ new.dislikes = IF disNew THEN old.dislikes \o <<dis>> ELSE old.dislikes
       /\ (~favNew /\ ~disNew) => new = old
       /\ update_preferences(new, fav, dis) = new

C6_Witness ==
  /\ Returned("update_preferences")
  /\ last.favorite = "Daal Chawal"
  /\ IsIn("Daal Chawal", Loaded(last.pre).favorites)
  /\ Loaded(file).favorites = Loaded(last.pre).favorites
  /\ last.dislike = "Karela"
  /\ ~IsIn("Karela", Loaded(last.pre).dislikes)
  /\ Loaded(file).dislikes = Loaded(last.pre).dislikes \o <<"Karela">>

\* C8: read_memory_bank with no preference file returns the two seed
\* favorites, no dislikes and no history, raises nothing and leaves the
\* file absent.
C8_DefaultWhenFileMissing ==
  (Returned("read_memory_bank") /\ ~last.pre.exists) =>
    /\ last.error = ""
    /\ last.ret.favorites = <<"Daal Chawal", "Chicken Handi White">>
    /\ last.ret.dislikes = <<>>
    /\ last.ret.last_14_days_suggestions = <<>>
    /\ ~file.exists

C8_Witness == Returned("read_memory_bank") /\ ~last.pre.exists

\* C9: fetch_recent_grocery_data never returns the empty string, and when
\* no row survives the filters, as when the sheet is empty or holds only
\* the header, it returns one of the two "none found" sentences.
C9_SentinelWhenNothingSurvives ==
  Returned("fetch_recent_grocery_data") =>
    /\ inventory # ""
    /\ Len(values) <= 1 => veggies = <<>>
    /\ veggies = <<>> =>
         inventory \in
           {"No data found in the spreadsheet.",
            "No vegetables found bought in the last 14 days. Check if 'CATEGORY' column matches 'Veg'."}

C9_Witness ==
  /\ Returned("fetch_recent_grocery_data")
  /\ Len(values) > 1
  /\ veggies = <<>>
  /\ inventory =
       "No vegetables found bought in the last 14 days. Check if 'CATEGORY' column matches 'Veg'."

\* C10: update_preferences leaves the persisted history as it was, and
\* save_selected_meal leaves the persisted favorites and dislikes as they
\* were.
C10_Frame ==
  /\ Returned("update_preferences") =>
       Loaded(file).last_14_days_suggestions = Loaded(last.pre).last_14_days_suggestions
  /\ Returned("save_selected_meal") =>
       /\ Loaded(file).favorites = Loaded(last.pre).favorites
       /\ Loaded(file).dislikes = Loaded(last.pre).dislikes

C10_Witness ==
  /\ Returned("save_selected_meal")
  /\ Loaded(last.pre).favorites = <<"Daal Chawal", "Chicken Handi White", "Biryani">>
  /\ Loaded(last.pre).dislikes = <<"Karela">>
  /\ Loaded(file).favorites = Loaded(last.pre).favorites
  /\ Len(Loaded(last.pre).last_14_days_suggestions) = 1
  /\ Len(Loaded(file).last_14_days_suggestions) = 1

====
